---- MODULE Spec2Model ----
(***************************************************************************)
(* A model of the simulation kernel of this repository:                    *)
(*   - ceam/state_machine.py: State, TransitionSet, Transition, Machine    *)
(*     (the probabilistic multi-state transition engine);                  *)
(*   - src/vivarium/component.py: Component.setup_component and the        *)
(*     helpers it calls (the component lifecycle).                         *)
(*                                                                         *)
(* Numbers.  Probabilities and draws are exact rationals on a grid: the    *)
(* integer p stands for p / Resolution.  Floating point rounding is not    *)
(* modelled.  A cumulative threshold is a fraction [num, den]; den = 0 is  *)
(* the NaN that numpy's 0.0 / 0.0 produces.                                *)
(*                                                                         *)
(* Objects.  A State object is identified with its state_id, so two State  *)
(* objects never share an id.  A DataFrame is the sequence of its rows, a  *)
(* row is [id, state]: the agent's identity and its state column.          *)
(***************************************************************************)
EXTENDS Integers, Sequences, FiniteSets, TLC

VARIABLES
    states,                 \* Machine.states: the declared States, in order
    transition_set,         \* State.transition_set, per State: its Transitions
    allow_null_transition,  \* TransitionSet.allow_null_transition, per State
    agents,                 \* the DataFrame handed to the next call
    probabilities,          \* what each t.probability(agents) returns
    draw,                   \* what get_draw(agents) returns
    get_draw_calls,         \* the cohorts get_draw was called with in the last call
    groups,                 \* the dict groupby_new_state returned
    output_indexes,         \* the output_indexes groupby_new_state computed
    outcome,                \* how the last call ended, and its return value
    repeated,               \* how the same call, made once more, ended
    components,             \* the Component instances: class attributes and fields
    listeners,              \* the event manager's listeners, per event
    initializers,           \* the population manager's simulant initializers
    lifecycle,              \* where the run is, and what the last event ran
    instance,               \* one Component object: its attributes and what
                            \* the reads of its name and __repr__ returned
    simulation              \* the screening module's Simulation: population,
                            \* current_time, and the handler's call record

smVars == <<states, transition_set, allow_null_transition, agents,
            probabilities, draw, get_draw_calls, groups, output_indexes, outcome,
            repeated>>

compVars == <<components, listeners, initializers, lifecycle, instance>>

scrVars == <<simulation>>

vars == <<smVars, compVars, scrVars>>

----------------------------------------------------------------------------
(* Bounds and input sets                                                   *)

NumAgents == 2
MaxTransitions == 2
Resolution == 2

Agents == 1..NumAgents

\* str(State) orders the State objects in next_state's sorted(): by id.
StateOrder == <<"A", "B", "C">>
StateIds == {StateOrder[i] : i \in DOMAIN StateOrder}

NULL_TRANSITION == "null_transition"

\* 1.0, and the smallest positive probability of the grid.
One == Resolution
Part == One \div Resolution

DrawValues == 0..(Resolution - 1)

\* The arrays a probability function may return over the agents: constant
\* ones (the default of Transition.__init__ is the constant 1) and one that
\* depends on the agent.
ProbabilityFuncs ==
    { [a \in Agents |-> 0],
      [a \in Agents |-> Part],
      [a \in Agents |-> One],
      [a \in Agents |-> IF a % 2 = 1 THEN Part ELSE 0] }

\* The arrays drawn for the transitions of a whole Machine in one pass.
PassProbabilityFuncs ==
    { [a \in Agents |-> Part],
      [a \in Agents |-> IF a % 2 = 1 THEN One ELSE 0] }

Transition(output) == [output |-> output]

TransitionSets ==
    UNION { [1..n -> {Transition(s) : s \in StateIds}] : n \in 0..MaxTransitions }

----------------------------------------------------------------------------
(* DataFrame helpers                                                       *)

Row(a, s) == [id |-> a, state |-> s]

RECURSIVE SeqSum(_)
SeqSum(s) == IF s = <<>> THEN 0 ELSE Head(s) + SeqSum(Tail(s))

RECURSIVE Concat(_)
Concat(dfs) == IF dfs = <<>> THEN <<>> ELSE Head(dfs) \o Concat(Tail(dfs))

IdsOf(df) == {df[i].id : i \in DOMAIN df}

\* The rows of df whose agent id is in S, in df's order.
RowsOf(df, S) == SelectSeq(df, LAMBDA r : r.id \in S)

\* The ascending enumeration of a finite set of integers.
RECURSIVE Ascending(_)
Ascending(S) ==
    IF S = {} THEN <<>>
    ELSE LET m == CHOOSE x \in S : \A y \in S : x <= y
         IN <<m>> \o Ascending(S \ {m})

\* Population with the agents of S in ascending id order, states from st.
Frame(S, st) == [i \in DOMAIN Ascending(S) |-> Row(Ascending(S)[i], st[Ascending(S)[i]])]

Raised(e) == [status |-> "raised", error |-> e, value |-> <<>>]
Returned(v) == [status |-> "ok", error |-> "", value |-> v]
NoCall == [status |-> "none", error |-> "", value |-> <<>>]

----------------------------------------------------------------------------
(* TransitionSet.groupby_new_state                                         *)

\* outputs with the first transition's target appended in the place of
\* 'null_transition'.
OutputsWithoutNullKey(ts, allow) ==
    [k \in 1..Len(ts) |-> ts[k].output]
        \o (IF allow THEN <<ts[1].output>> ELSE <<>>)

\* outputs, as returned with the groups: the targets in declaration order,
\* 'null_transition' appended when null transitions are allowed.
Outputs(ts, allow) ==
    [k \in 1..Len(ts) |-> ts[k].output]
        \o (IF allow THEN <<NULL_TRANSITION>> ELSE <<>>)

\* total = np.sum(probabilities, axis=0), for agent a.
Total(probs, a) == SeqSum([k \in DOMAIN probs |-> probs[k][a]])

\* np.all in the place of np.any.
TotalGreaterThanOneForAll(probs, cohort) ==
    \A a \in IdsOf(cohort) : Total(probs, a) > One

\* np.any(total > 1) over the cohort.
TotalGreaterThanOne(probs, cohort) ==
    \E a \in IdsOf(cohort) : Total(probs, a) > One

\* The rows of `probabilities` for agent a after the normalisation
\* (probabilities /= total) or after the null transition's row is appended.
Probabilities(probs, allow, a) ==
    IF ~allow
    THEN [k \in DOMAIN probs |-> [num |-> probs[k][a], den |-> Total(probs, a)]]
    ELSE [k \in DOMAIN probs |-> [num |-> probs[k][a], den |-> One]]
             \o <<[num |-> One - Total(probs, a), den |-> One]>>

\* sums = probabilities.cumsum(axis=0), for agent a.
Sums(probs, allow, a) ==
    LET p == Probabilities(probs, allow, a)
    IN [k \in DOMAIN p |->
           [num |-> SeqSum([j \in 1..k |-> p[j].num]), den |-> p[k].den]]

\* draw > sums in the place of draw >= sums.
DrawGT(d, c) == c.den > 0 /\ d * c.den > c.num * One

\* draw >= sums with draws that move on with every earlier call of
\* get_draw.
DrawGEFromMovingStream(d, c) ==
    c.den > 0 /\ ((d + Len(get_draw_calls)) % Resolution) * c.den >= c.num * One

\* draw >= sums, for one draw d (d / Resolution) and one threshold c; a
\* comparison with NaN is False.
DrawGE(d, c) == c.den > 0 /\ d * c.den >= c.num * One

\* output_indexes = (draw >= sums).sum(axis=0), for agent a (from 0).
OutputIndex(probs, allow, d, a) ==
    LET sums == Sums(probs, allow, a)
    IN Cardinality({k \in DOMAIN sums : DrawGE(d[a], sums[k])})

\* agents.groupby(output_indexes): index -> the rows with that index.
GroupBy(cohort, idx) ==
    [i \in {idx[a] : a \in IdsOf(cohort)} |->
        RowsOf(cohort, {a \in IdsOf(cohort) : idx[a] = i})]

\* {outputs[i]: sub_group for i, sub_group in groups}: the groups are
\* visited in ascending index, and a later entry replaces an earlier one
\* that has the same key.
GroupsDict(outputs, byIndex) ==
    [o \in {outputs[i + 1] : i \in DOMAIN byIndex} |->
        LET last == CHOOSE i \in DOMAIN byIndex :
                        /\ outputs[i + 1] = o
                        /\ \A j \in DOMAIN byIndex : outputs[j + 1] = o => j <= i
        IN byIndex[last]]

GroupByNewState(ts, allow, cohort, probs, d) ==
    LET outputs == Outputs(ts, allow)
        idx     == [a \in IdsOf(cohort) |-> OutputIndex(probs, allow, d, a)]
        byIndex == GroupBy(cohort, idx)
    IN  IF allow /\ TotalGreaterThanOne(probs, cohort)
        THEN [error |-> "ValueError", groups |-> <<>>, output_indexes |-> <<>>]
        ELSE IF \E i \in DOMAIN byIndex : i + 1 > Len(outputs)
        THEN [error |-> "IndexError", groups |-> <<>>, output_indexes |-> idx]
        ELSE [error |-> "", groups |-> GroupsDict(outputs, byIndex),
              output_indexes |-> idx]

\* The calls of get_draw one call of next_state makes: none when the
\* transition set is empty or the ValueError is raised first, one otherwise.
GetDrawCalls(ts, allow, cohort, probs) ==
    IF Len(ts) = 0 THEN <<>>
    ELSE IF allow /\ TotalGreaterThanOne(probs, cohort) THEN <<>>
    ELSE <<IdsOf(cohort)>>

----------------------------------------------------------------------------
(* State                                                                   *)

\* transition_effect without the assignment to the state column.
TransitionEffectWithoutWrite(state_id, affected) == affected

\* agents[state_column] = self.state_id; the default _transition_side_effect
\* returns the agents as they are.
TransitionEffect(state_id, affected) ==
    [i \in DOMAIN affected |-> [affected[i] EXCEPT !.state = state_id]]

\* sorted(groups.items(), key=lambda x: str(x[0])): 'State("A" ...)' sorts
\* before 'State("B" ...)', and every State before 'null_transition'.
SortedKeys(g) ==
    SelectSeq(StateOrder \o <<NULL_TRANSITION>>, LAMBDA k : k \in DOMAIN g)

\* next_state without the return of line 16: an empty transition set gives
\* no group and the empty frame of line 29.
NextStateWithoutShortcut(ts, allow, cohort, probs, d) ==
    LET g == IF Len(ts) = 0
             THEN [error |-> "", groups |-> <<>>, output_indexes |-> <<>>]
             ELSE GroupByNewState(ts, allow, cohort, probs, d)
        keys == SortedKeys(g.groups)
    IN  IF g.error # "" THEN Raised(g.error)
        ELSE IF DOMAIN g.groups # {}
        THEN Returned(Concat(
                 [i \in DOMAIN keys |->
                     IF keys[i] # NULL_TRANSITION
                     THEN TransitionEffect(keys[i], g.groups[keys[i]])
                     ELSE g.groups[keys[i]]]))
        ELSE Returned(<<>>)

NextState(ts, allow, cohort, probs, d) ==
    IF Len(ts) = 0 THEN Returned(cohort)
    ELSE LET g == GroupByNewState(ts, allow, cohort, probs, d)
             keys == SortedKeys(g.groups)
         IN  IF g.error # "" THEN Raised(g.error)
             ELSE IF DOMAIN g.groups # {}
             THEN Returned(Concat(
                      [i \in DOMAIN keys |->
                          IF keys[i] # NULL_TRANSITION
                          THEN TransitionEffect(keys[i], g.groups[keys[i]])
                          ELSE g.groups[keys[i]]]))
             ELSE Returned(<<>>)

----------------------------------------------------------------------------
(* Machine                                                                 *)

\* agents[agents[self.state_column] == state.state_id]
AffectedAgents(population, state_id) ==
    SelectSeq(population, LAMBDA r : r.state = state_id)

\* The loop with every State selecting its cohort from the population as
\* the States before it left it.
RECURSIVE TransitionLoopInPlace(_, _, _, _, _, _, _)
TransitionLoopInPlace(sts, tsOf, allowOf, population, probsOf, d, result) ==
    IF sts = <<>> THEN Returned(population)
    ELSE LET state == Head(sts)
             r == NextState(tsOf[state], allowOf[state],
                            AffectedAgents(population, state), probsOf[state], d)
         IN  IF r.status = "raised" THEN r
             ELSE TransitionLoopInPlace(Tail(sts), tsOf, allowOf,
                      SelectSeq(population, LAMBDA row : row.state # state) \o r.value,
                      probsOf, d, result)

\* The loop going on to the next State when next_state raises.
RECURSIVE TransitionLoopSkippingFailures(_, _, _, _, _, _, _)
TransitionLoopSkippingFailures(sts, tsOf, allowOf, population, probsOf, d, result) ==
    IF sts = <<>> THEN Returned(Concat(result))
    ELSE LET state == Head(sts)
             r == NextState(tsOf[state], allowOf[state],
                            AffectedAgents(population, state), probsOf[state], d)
         IN  TransitionLoopSkippingFailures(Tail(sts), tsOf, allowOf, population,
                 probsOf, d,
                 IF r.status = "raised" THEN result ELSE Append(result, r.value))

\* The loop of Machine.transition over self.states[n..], with the results
\* appended so far; an exception leaves the loop.
RECURSIVE TransitionLoop(_, _, _, _, _, _, _)
TransitionLoop(sts, tsOf, allowOf, population, probsOf, d, result) ==
    IF sts = <<>> THEN Returned(Concat(result))
    ELSE LET state == Head(sts)
             r == NextState(tsOf[state], allowOf[state],
                            AffectedAgents(population, state), probsOf[state], d)
         IN  IF r.status = "raised" THEN r
             ELSE TransitionLoop(Tail(sts), tsOf, allowOf, population, probsOf, d,
                                 Append(result, r.value))

MachineTransition(sts, tsOf, allowOf, population, probsOf, d) ==
    TransitionLoop(sts, tsOf, allowOf, population, probsOf, d, <<>>)

\* The calls of get_draw the loop of Machine.transition makes, up to the
\* State whose next_state raises.
RECURSIVE MachineGetDrawCalls(_, _, _, _, _, _)
MachineGetDrawCalls(sts, tsOf, allowOf, population, probsOf, d) ==
    IF sts = <<>> THEN <<>>
    ELSE LET state == Head(sts)
             cohort == AffectedAgents(population, state)
             r == NextState(tsOf[state], allowOf[state], cohort, probsOf[state], d)
             calls == GetDrawCalls(tsOf[state], allowOf[state], cohort, probsOf[state])
         IN  IF r.status = "raised" THEN calls
             ELSE calls \o MachineGetDrawCalls(Tail(sts), tsOf, allowOf, population,
                                               probsOf, d)

----------------------------------------------------------------------------
(* Component: class attributes, the builder's interfaces, setup_component  *)

DEFAULT_EVENT_PRIORITY == 5

None == [is_none |-> TRUE]
Some(v) == [is_none |-> FALSE, value |-> v]

\* The lifecycle events, in the order setup_component registers them, and
\* the hook each one triggers.
EventNames == <<"post_setup", "time_step__prepare", "time_step",
                "time_step__cleanup", "collect_metrics", "simulation_end">>
HookNames == <<"on_post_setup", "on_time_step_prepare", "on_time_step",
               "on_time_step_cleanup", "on_collect_metrics", "on_simulation_end">>
Events == {EventNames[i] : i \in DOMAIN EventNames}
Hooks == {HookNames[i] : i \in DOMAIN HookNames}

\* The base class: no hook overridden, no column, no lookup table, every
\* priority the default; the fields are as __init__ leaves them.
BaseComponent ==
    [ overrides |-> {},
      columns_created |-> <<>>,
      columns_required |-> None,
      population_view_query |-> None,
      standard_lookup_tables |-> <<>>,
      configuration |-> <<>>,
      post_setup_priority |-> DEFAULT_EVENT_PRIORITY,
      time_step_prepare_priority |-> DEFAULT_EVENT_PRIORITY,
      time_step_priority |-> DEFAULT_EVENT_PRIORITY,
      time_step_cleanup_priority |-> DEFAULT_EVENT_PRIORITY,
      collect_metrics_priority |-> DEFAULT_EVENT_PRIORITY,
      simulation_end_priority |-> DEFAULT_EVENT_PRIORITY,
      logger |-> None,
      population_view |-> None,
      lookup_tables |-> <<>>,
      calls |-> <<>>,
      is_setup |-> FALSE ]

\* self.population_view.get(...) or .update(...) in a hook: an attribute
\* access on None while the field holds what __init__ gave it.
PopulationAccess(self) ==
    IF self.population_view.is_none
    THEN [status |-> "raised", error |-> "AttributeError"]
    ELSE [status |-> "ok", error |-> ""]

\* type(self).<hook> != Component.<hook>
Overrides(self, hook) == hook \in self.overrides

\* Component.name; the derivation from the class and the constructor
\* arguments is not modelled here, the component's id stands for it.
Name(id) == <<"component", id>>

Called(w, call) == [w EXCEPT !.self.calls = Append(@, call)]

\* builder.logging.get_logger(name)
GetLogger(name) == Some(name)

\* builder.data.load(key_name)
DataLoad(key_name) == [loaded |-> key_name]

\* builder.lookup.build_table(data, key_columns=..., parameter_columns=...)
BuildTable(data, key_columns, parameter_columns) ==
    [data |-> data, key_columns |-> key_columns, parameter_columns |-> parameter_columns]

\* builder.population.get_view(columns, query)
GetView(columns, query) == [columns |-> columns, query |-> query]

\* builder.event.register_listener(event, listener, priority): the listener
\* is appended to the event's listeners.
RegisterListener(w, event, hook, priority) ==
    LET l == [component |-> w.id, hook |-> hook, priority |-> priority]
    IN  Called([w EXCEPT !.listeners[event] = Append(@, l)],
               [call |-> "register_listener", event |-> event, hook |-> hook,
                priority |-> priority, view_decided |-> w.view_decided])

\* builder.population.initializes_simulants(initializer, creates_columns, ...)
InitializesSimulants(w, creates_columns) ==
    Called([w EXCEPT !.initializers =
                Append(@, [component |-> w.id, creates_columns |-> creates_columns])],
           [call |-> "initializes_simulants", view_decided |-> w.view_decided])

\* self.logger = builder.logging.get_logger(self.name)
SetLogger(w) ==
    Called([w EXCEPT !.self.logger = GetLogger(Name(w.id))],
           [call |-> "get_logger", name |-> Name(w.id)])

\* One turn of the loop of build_lookup_tables, for the key lookup_table_name.
\* build_lookup_tables' loop body with the continuous columns as key
\* columns and the categorical columns as parameter columns.
BuildLookupTableColumnsSwapped(w, lookup_table_name) ==
    LET lookup_table_config == w.self.configuration[lookup_table_name]
        table == IF lookup_table_config.value = "data"
                 THEN BuildTable(DataLoad(lookup_table_config.key_name),
                                 lookup_table_config.continuous_columns,
                                 lookup_table_config.categorical_columns)
                 ELSE BuildTable(lookup_table_config.value, None, None)
        loaded == IF lookup_table_config.value = "data"
                  THEN Called(w, [call |-> "load", key_name |-> lookup_table_config.key_name])
                  ELSE w
        built == Called(loaded, [call |-> "build_table", key |-> lookup_table_name])
    IN  [built EXCEPT !.self.lookup_tables =
            [k \in DOMAIN @ \cup {lookup_table_name} |->
                IF k = lookup_table_name THEN table ELSE @[k]]]

BuildLookupTable(w, lookup_table_name) ==
    LET lookup_table_config == w.self.configuration[lookup_table_name]
        table == IF lookup_table_config.value = "data"
                 THEN BuildTable(DataLoad(lookup_table_config.key_name),
                                 lookup_table_config.categorical_columns,
                                 lookup_table_config.continuous_columns)
                 ELSE BuildTable(lookup_table_config.value, None, None)
        loaded == IF lookup_table_config.value = "data"
                  THEN Called(w, [call |-> "load", key_name |-> lookup_table_config.key_name])
                  ELSE w
        built == Called(loaded, [call |-> "build_table", key |-> lookup_table_name])
    IN  [built EXCEPT !.self.lookup_tables =
            [k \in DOMAIN @ \cup {lookup_table_name} |->
                IF k = lookup_table_name THEN table ELSE @[k]]]

RECURSIVE BuildLookupTablesFrom(_, _)
BuildLookupTablesFrom(w, keys) ==
    IF keys = <<>> THEN w
    ELSE BuildLookupTablesFrom(BuildLookupTable(w, Head(keys)), Tail(keys))

BuildLookupTables(w) == BuildLookupTablesFrom(w, w.self.standard_lookup_tables)

\* self.setup(builder): the custom hook (the base one does nothing); what
\* the component's fields hold when it runs is kept with the call.
Setup(w) ==
    Called(w, [call |-> "setup",
               logger |-> w.self.logger,
               lookup_tables |-> DOMAIN w.self.lookup_tables,
               population_view |-> w.self.population_view,
               view_decided |-> w.view_decided,
               listeners |-> {e \in Events : \E i \in DOMAIN w.listeners[e] :
                                  w.listeners[e][i].component = w.id}])

\* An empty columns_required taken for an absent one.
PopulationViewColumnsEmptyAsNone(self) ==
    IF ~self.columns_required.is_none /\ self.columns_required.value # <<>>
    THEN Some(self.columns_created \o self.columns_required.value)
    ELSE IF self.columns_created # <<>>
    THEN Some(self.columns_created)
    ELSE None

\* columns_created taken as the view's columns also when it is empty.
PopulationViewColumnsOfCreated(self) ==
    IF ~self.columns_required.is_none /\ self.columns_required.value # <<>>
    THEN Some(self.columns_created \o self.columns_required.value)
    ELSE IF ~self.columns_required.is_none /\ self.columns_required.value = <<>>
    THEN Some(<<>>)
    ELSE Some(self.columns_created)

\* The population_view_columns _set_population_view computes.
PopulationViewColumns(self) ==
    IF ~self.columns_required.is_none /\ self.columns_required.value # <<>>
    THEN Some(self.columns_created \o self.columns_required.value)
    ELSE IF ~self.columns_required.is_none /\ self.columns_required.value = <<>>
    THEN Some(<<>>)
    ELSE IF self.columns_required.is_none /\ self.columns_created # <<>>
    THEN Some(self.columns_created)
    ELSE None

SetPopulationView(w) ==
    LET population_view_columns == PopulationViewColumns(w.self)
        decided == [w EXCEPT !.view_decided = TRUE]
    IN  IF ~population_view_columns.is_none
        THEN Called([decided EXCEPT !.self.population_view =
                        Some(GetView(population_view_columns.value,
                                     w.self.population_view_query))],
                    [call |-> "get_view", columns |-> population_view_columns.value,
                     query |-> w.self.population_view_query])
        ELSE decided

RegisterPostSetupListener(w) ==
    IF Overrides(w.self, "on_post_setup")
    THEN RegisterListener(w, "post_setup", "on_post_setup", w.self.post_setup_priority)
    ELSE w

RegisterSimulantInitializer(w) ==
    IF Overrides(w.self, "on_initialize_simulants")
    THEN InitializesSimulants(w, w.self.columns_created)
    ELSE w

\* The time_step__prepare listener registered on the time_step event.
RegisterTimeStepPrepareListenerOnTimeStep(w) ==
    IF Overrides(w.self, "on_time_step_prepare")
    THEN RegisterListener(w, "time_step", "on_time_step_prepare",
                          w.self.time_step_prepare_priority)
    ELSE w

RegisterTimeStepPrepareListener(w) ==
    IF Overrides(w.self, "on_time_step_prepare")
    THEN RegisterListener(w, "time_step__prepare", "on_time_step_prepare",
                          w.self.time_step_prepare_priority)
    ELSE w

\* The time_step listener registered at the default priority.
RegisterTimeStepListenerAtDefault(w) ==
    IF Overrides(w.self, "on_time_step")
    THEN RegisterListener(w, "time_step", "on_time_step", DEFAULT_EVENT_PRIORITY)
    ELSE w

\* The time_step listener registered twice.
RegisterTimeStepListenerTwice(w) ==
    IF Overrides(w.self, "on_time_step")
    THEN RegisterListener(
             RegisterListener(w, "time_step", "on_time_step", w.self.time_step_priority),
             "time_step", "on_time_step", w.self.time_step_priority)
    ELSE w

RegisterTimeStepListener(w) ==
    IF Overrides(w.self, "on_time_step")
    THEN RegisterListener(w, "time_step", "on_time_step", w.self.time_step_priority)
    ELSE w

\* The time_step__cleanup listener registered at the time_step priority.
RegisterTimeStepCleanupListenerAtStepPriority(w) ==
    IF Overrides(w.self, "on_time_step_cleanup")
    THEN RegisterListener(w, "time_step__cleanup", "on_time_step_cleanup",
                          w.self.time_step_priority)
    ELSE w

RegisterTimeStepCleanupListener(w) ==
    IF Overrides(w.self, "on_time_step_cleanup")
    THEN RegisterListener(w, "time_step__cleanup", "on_time_step_cleanup",
                          w.self.time_step_cleanup_priority)
    ELSE w

RegisterCollectMetricsListener(w) ==
    IF Overrides(w.self, "on_collect_metrics")
    THEN RegisterListener(w, "collect_metrics", "on_collect_metrics",
                          w.self.collect_metrics_priority)
    ELSE w

RegisterSimulationEndListener(w) ==
    IF Overrides(w.self, "on_simulation_end")
    THEN RegisterListener(w, "simulation_end", "on_simulation_end",
                          w.self.simulation_end_priority)
    ELSE w

\* setup_component with the custom hook called before the lookup tables
\* are built.
SetupComponentHookFirst(w) ==
    LET logged     == SetLogger(w)
        customised == Setup(logged)
        tabled     == BuildLookupTables(customised)
        viewed     == SetPopulationView(tabled)
        r1 == RegisterPostSetupListener(viewed)
        r2 == RegisterSimulantInitializer(r1)
        r3 == RegisterTimeStepPrepareListener(r2)
        r4 == RegisterTimeStepListener(r3)
        r5 == RegisterTimeStepCleanupListener(r4)
        r6 == RegisterCollectMetricsListener(r5)
    IN  RegisterSimulationEndListener(r6)

\* setup_component(builder), statement after statement.
SetupComponent(w) ==
    LET logged     == SetLogger(w)
        tabled     == BuildLookupTables(logged)
        customised == Setup(tabled)
        viewed     == SetPopulationView(customised)
        r1 == RegisterPostSetupListener(viewed)
        r2 == RegisterSimulantInitializer(r1)
        r3 == RegisterTimeStepPrepareListener(r2)
        r4 == RegisterTimeStepListener(r3)
        r5 == RegisterTimeStepCleanupListener(r4)
        r6 == RegisterCollectMetricsListener(r5)
    IN  RegisterSimulationEndListener(r6)

\* The component manager sets a component up, once.
SetupComponentCall(c) ==
    /\ ~components[c].is_setup
    /\ lifecycle.event = ""
    /\ LET w == SetupComponent([id |-> c, self |-> components[c],
                                listeners |-> listeners,
                                initializers |-> initializers,
                                view_decided |-> FALSE])
       IN  /\ components' = [components EXCEPT ![c] = [w.self EXCEPT !.is_setup = TRUE]]
           /\ listeners' = w.listeners
           /\ initializers' = w.initializers
           /\ lifecycle' = [lifecycle EXCEPT !.setup_order = Append(@, c)]
    /\ UNCHANGED instance
    /\ UNCHANGED smVars
    /\ UNCHANGED scrVars

----------------------------------------------------------------------------
(* The event manager and the run loop that emits the lifecycle events      *)

MaxSteps == 2

\* The listeners of one event in the order an emit runs them: ascending
\* priority, and registration order among equal priorities.
RunOrder(ls) ==
    LET priorities == Ascending({ls[i].priority : i \in DOMAIN ls})
    IN  Concat([i \in DOMAIN priorities |->
                   SelectSeq(ls, LAMBDA l : l.priority = priorities[i])])

Emit(event) ==
    /\ lifecycle' = [lifecycle EXCEPT !.event = event, !.ran = RunOrder(listeners[event]),
                                      !.emitted = Append(@, event)]
    /\ UNCHANGED <<components, listeners, initializers, instance>>
    /\ UNCHANGED smVars
    /\ UNCHANGED scrVars

EmitPostSetup ==
    /\ lifecycle.event = ""
    /\ \A c \in DOMAIN components : components[c].is_setup
    /\ Emit("post_setup")

EmitTimeStepPrepare ==
    /\ lifecycle.event \in {"post_setup", "collect_metrics"}
    /\ lifecycle.step < MaxSteps
    /\ lifecycle' = [lifecycle EXCEPT !.event = "time_step__prepare",
                                      !.ran = RunOrder(listeners["time_step__prepare"]),
                                      !.emitted = Append(@, "time_step__prepare"),
                                      !.step = @ + 1]
    /\ UNCHANGED <<components, listeners, initializers, instance>>
    /\ UNCHANGED smVars
    /\ UNCHANGED scrVars

EmitTimeStep ==
    /\ lifecycle.event = "time_step__prepare"
    /\ Emit("time_step")

EmitTimeStepCleanup ==
    /\ lifecycle.event = "time_step"
    /\ Emit("time_step__cleanup")

EmitCollectMetrics ==
    /\ lifecycle.event = "time_step__cleanup"
    /\ Emit("collect_metrics")

EmitSimulationEnd ==
    /\ lifecycle.event \in {"post_setup", "collect_metrics"}
    /\ Emit("simulation_end")

----------------------------------------------------------------------------
(* Component classes                                                       *)

NumComponents == 2

PriorityProfiles ==
    { [post_setup |-> DEFAULT_EVENT_PRIORITY, time_step_prepare |-> DEFAULT_EVENT_PRIORITY,
       time_step |-> DEFAULT_EVENT_PRIORITY, time_step_cleanup |-> DEFAULT_EVENT_PRIORITY,
       collect_metrics |-> DEFAULT_EVENT_PRIORITY, simulation_end |-> DEFAULT_EVENT_PRIORITY],
      [post_setup |-> 0, time_step_prepare |-> 1, time_step |-> 2,
       time_step_cleanup |-> 3, collect_metrics |-> 4, simulation_end |-> 6],
      [post_setup |-> 9, time_step_prepare |-> 8, time_step |-> 7,
       time_step_cleanup |-> 7, collect_metrics |-> 9, simulation_end |-> 9] }

WithPriorities(self, p) ==
    [self EXCEPT !.post_setup_priority = p.post_setup,
                 !.time_step_prepare_priority = p.time_step_prepare,
                 !.time_step_priority = p.time_step,
                 !.time_step_cleanup_priority = p.time_step_cleanup,
                 !.collect_metrics_priority = p.collect_metrics,
                 !.simulation_end_priority = p.simulation_end]

\* build_lookup_table_config(value, continuous_columns, categorical_columns, key_name)
LookupTableConfigs ==
    { [value |-> "data", continuous_columns |-> <<"age">>,
       categorical_columns |-> <<"sex">>, key_name |-> "risk.exposure"],
      [value |-> "0.5", continuous_columns |-> <<>>, categorical_columns |-> <<>>] }

LookupKeys == <<"exposure", "relative_risk">>

\* standard_lookup_tables with the configuration of each key.
LookupDeclarations ==
    UNION { { [keys |-> SubSeq(LookupKeys, 1, n), configuration |-> cfg] :
                cfg \in [{LookupKeys[i] : i \in 1..n} -> LookupTableConfigs] } :
            n \in 0..Len(LookupKeys) }

\* The subclasses one component is drawn from when its setup is looked at
\* alone: any set of overridden hooks, with or without columns, lookup
\* tables and a query.
SetupClasses ==
    { WithPriorities(
        [BaseComponent EXCEPT !.overrides = o,
                              !.columns_created = cc,
                              !.columns_required = cr,
                              !.population_view_query = q,
                              !.standard_lookup_tables = lt.keys,
                              !.configuration = lt.configuration], p) :
        o \in SUBSET (Hooks \cup {"on_initialize_simulants"}),
        cc \in {<<>>, <<"house">>},
        cr \in {None, Some(<<>>), Some(<<"age", "sex">>)},
        q \in {None, Some("alive == 'alive'")},
        lt \in LookupDeclarations,
        p \in PriorityProfiles }

\* The subclasses the components of a whole simulation are drawn from.
EventClasses ==
    { WithPriorities([BaseComponent EXCEPT !.overrides = o], p) :
        o \in { {}, {"on_time_step"}, {"on_time_step", "on_collect_metrics"}, Hooks },
        p \in PriorityProfiles }

NoInstance == <<>>

NoSimulation == <<>>

IdleLifecycle ==
    [event |-> "", step |-> 0, ran |-> <<>>, emitted |-> <<>>, setup_order |-> <<>>]

NoComponents ==
    /\ components = <<>>
    /\ listeners = [e \in Events |-> <<>>]
    /\ initializers = <<>>
    /\ lifecycle = IdleLifecycle
    /\ instance = NoInstance

NoMachine ==
    /\ states = <<>>
    /\ transition_set = <<>>
    /\ allow_null_transition = <<>>
    /\ agents = <<>>
    /\ probabilities = <<>>
    /\ draw = <<>>
    /\ get_draw_calls = <<>>
    /\ groups = <<>>
    /\ output_indexes = <<>>
    /\ outcome = NoCall
    /\ repeated = NoCall

\* One component, of any subclass, and its setup.
InitSetup ==
    /\ simulation = NoSimulation
    /\ NoMachine
    /\ components \in [{1} -> SetupClasses]
    /\ listeners = [e \in Events |-> <<>>]
    /\ initializers = <<>>
    /\ lifecycle = IdleLifecycle
    /\ instance = NoInstance

SetupStep == \E c \in DOMAIN components : SetupComponentCall(c)

SpecSetup == InitSetup /\ [][SetupStep]_vars

\* A simulation: the components are set up in any order, then the run loop
\* emits the events.
InitEvents ==
    /\ simulation = NoSimulation
    /\ NoMachine
    /\ components \in [1..NumComponents -> EventClasses]
    /\ listeners = [e \in Events |-> <<>>]
    /\ initializers = <<>>
    /\ lifecycle = IdleLifecycle
    /\ instance = NoInstance

NextEvents ==
    \/ SetupStep
    \/ EmitPostSetup
    \/ EmitTimeStepPrepare
    \/ EmitTimeStep
    \/ EmitTimeStepCleanup
    \/ EmitCollectMetrics
    \/ EmitSimulationEnd

SpecEvents == InitEvents /\ [][NextEvents]_vars

----------------------------------------------------------------------------
(* Component.name, Component.__repr__ and get_initialization_parameters    *)

MaxReads == 2
MaxWrites == 1

\* Strings are sequences of tokens; a class name is spelt character by
\* character, since name rewrites it.
UpperCase == <<"O", "R", "S", "I">>
LowerCase == <<"o", "r", "s", "i">>
Digit == {"2"}
IsUpper(ch) == \E i \in DOMAIN UpperCase : UpperCase[i] = ch
IsLower(ch) == ch \in {"b", "k"} \/ \E i \in DOMAIN LowerCase : LowerCase[i] = ch
ToLower(ch) ==
    IF IsUpper(ch)
    THEN LowerCase[CHOOSE i \in DOMAIN UpperCase : UpperCase[i] = ch]
    ELSE ch

\* The end of the run [a-z]+ that starts at position i of s.
RECURSIVE LowerRunEnd(_, _)
LowerRunEnd(s, i) ==
    IF i + 1 <= Len(s) /\ IsLower(s[i + 1]) THEN LowerRunEnd(s, i + 1) ELSE i

\* re.sub("(.)([A-Z][a-z]+)", r"\1_\2", s), from position i on.
RECURSIVE SubCapitalisedWord(_, _)
SubCapitalisedWord(s, i) ==
    IF i > Len(s) THEN <<>>
    ELSE IF i + 2 <= Len(s) /\ IsUpper(s[i + 1]) /\ IsLower(s[i + 2])
    THEN LET end == LowerRunEnd(s, i + 2)
         IN  <<s[i], "_">> \o SubSeq(s, i + 1, end) \o SubCapitalisedWord(s, end + 1)
    ELSE <<s[i]>> \o SubCapitalisedWord(s, i + 1)

\* re.sub("([a-z0-9])([A-Z])", r"\1_\2", s), from position i on.
RECURSIVE SubLowerUpper(_, _)
SubLowerUpper(s, i) ==
    IF i > Len(s) THEN <<>>
    ELSE IF i + 1 <= Len(s) /\ (IsLower(s[i]) \/ s[i] \in Digit) /\ IsUpper(s[i + 1])
    THEN <<s[i], "_", s[i + 1]>> \o SubLowerUpper(s, i + 2)
    ELSE <<s[i]>> \o SubLowerUpper(s, i + 1)

\* base_name: the class name in snake case.
BaseName(class_name) ==
    LET snake == SubLowerUpper(SubCapitalisedWord(class_name, 1), 1)
    IN  [i \in DOMAIN snake |-> ToLower(snake[i])]

\* sep.join(parts)
RECURSIVE Join(_, _)
Join(sep, parts) ==
    IF parts = <<>> THEN <<>>
    ELSE IF Len(parts) = 1 THEN parts[1]
    ELSE parts[1] \o sep \o Join(sep, Tail(parts))

\* The values an argument of __init__ may have: a string, or a Component
\* (here one whose name and __repr__ are known).
StringValue(text) == [is_component |-> FALSE, text |-> text, name |-> <<>>, repr |-> <<>>]
ComponentValue(class_name) ==
    [is_component |-> TRUE, text |-> <<"<object>">>,
     name |-> BaseName(class_name), repr |-> class_name \o <<"(", ")">>]
ArgumentValues ==
    { StringValue(<<"high">>), StringValue(<<"low">>), ComponentValue(<<"O", "b", "s">>) }

\* The parameters of __init__, and the class names.
Parameters == <<"risk", "level">>
ClassNames ==
    { <<"O", "b", "s">>,
      <<"R", "i", "s", "k", "O", "b", "s">>,
      <<"S", "I", "R", "i", "s", "k">>,
      <<"R", "2", "O", "b", "s">> }

\* get_initialization_parameters: the parameters of __init__ that have an
\* attribute of the same name, in the order of the signature, each with the
\* attribute's current value.
GetInitializationParameters(self) ==
    LET names == SelectSeq(self.parameters, LAMBDA n : n \in DOMAIN self.attributes)
    IN  [i \in DOMAIN names |-> [name |-> names[i], value |-> self.attributes[names[i]]]]

\* The string name computes when _name is empty.
ComputedName(self) ==
    LET parameters == GetInitializationParameters(self)
        args == [i \in DOMAIN parameters |->
                    IF parameters[i].value.is_component
                    THEN <<"'">> \o parameters[i].value.name \o <<"'">>
                    ELSE parameters[i].value.text]
    IN  Join(<<".">>, <<BaseName(self.class_name)>> \o args)

\* The string __repr__ computes when _repr is empty.
ComputedRepr(self) ==
    LET parameters == GetInitializationParameters(self)
        args == [i \in DOMAIN parameters |->
                    <<parameters[i].name, "=">> \o
                    (IF parameters[i].value.is_component
                     THEN parameters[i].value.repr
                     ELSE parameters[i].value.text)]
    IN  self.class_name \o <<"(">> \o Join(<<", ">>, args) \o <<")">>

\* name computed at every read.
NamePropertyWithoutCache(self) == ComputedName(self)

\* The property name: what it returns.
NameProperty(self) == IF self._name = <<>> THEN ComputedName(self) ELSE self._name

\* __repr__: what it returns.
Repr(self) == IF self._repr = <<>> THEN ComputedRepr(self) ELSE self._repr

\* A component after its construction: __init__ of Component has emptied
\* _name and _repr, and the subclass has stored some of its arguments in
\* attributes of the same name.
Constructed(class_name, n, stored, arguments) ==
    [ class_name |-> class_name,
      parameters |-> SubSeq(Parameters, 1, n),
      arguments |-> arguments,
      stored |-> stored,
      attributes |-> [q \in stored |-> arguments[q]],
      _name |-> <<>>,
      _repr |-> <<>>,
      names |-> <<>>,
      reprs |-> <<>>,
      writes |-> 0 ]

InitName ==
    /\ simulation = NoSimulation
    /\ NoMachine
    /\ components = <<>>
    /\ listeners = [e \in Events |-> <<>>]
    /\ initializers = <<>>
    /\ lifecycle = IdleLifecycle
    /\ \E class_name \in ClassNames, n \in 0..Len(Parameters) :
           \E stored \in SUBSET {Parameters[i] : i \in 1..n} :
               \E arguments \in [{Parameters[i] : i \in 1..n} -> ArgumentValues] :
                   instance = Constructed(class_name, n, stored, arguments)

\* A read of component.name.
ReadName ==
    /\ Len(instance.names) < MaxReads
    /\ LET value == NameProperty(instance)
       IN  instance' = [instance EXCEPT !._name = value, !.names = Append(@, value)]
    /\ UNCHANGED <<components, listeners, initializers, lifecycle>>
    /\ UNCHANGED smVars
    /\ UNCHANGED scrVars

\* A call of repr(component).
ReadRepr ==
    /\ Len(instance.reprs) < MaxReads
    /\ LET value == Repr(instance)
       IN  instance' = [instance EXCEPT !._repr = value, !.reprs = Append(@, value)]
    /\ UNCHANGED <<components, listeners, initializers, lifecycle>>
    /\ UNCHANGED smVars
    /\ UNCHANGED scrVars

\* component.<parameter> = value, for an attribute named as a parameter of
\* __init__.
SetAttribute ==
    /\ instance.writes < MaxWrites
    /\ \E q \in {instance.parameters[i] : i \in DOMAIN instance.parameters},
          value \in ArgumentValues :
           instance' = [instance EXCEPT
               !.attributes = [r \in DOMAIN @ \cup {q} |-> IF r = q THEN value ELSE @[r]],
               !.writes = @ + 1]
    /\ UNCHANGED <<components, listeners, initializers, lifecycle>>
    /\ UNCHANGED smVars
    /\ UNCHANGED scrVars

NextName == ReadName \/ ReadRepr \/ SetAttribute

SpecName == InitName /\ [][NextName]_vars

----------------------------------------------------------------------------
(* State.next_state on one cohort: the inputs are drawn by the initial     *)
(* condition, the call is one step.                                        *)

SELF == "A"

InitNextState ==
    /\ simulation = NoSimulation
    /\ states = <<SELF>>
    /\ \E ts \in TransitionSets :
           transition_set = [s \in StateIds |-> IF s = SELF THEN ts ELSE <<>>]
    /\ \E allow \in BOOLEAN :
           allow_null_transition = [s \in StateIds |-> IF s = SELF THEN allow ELSE TRUE]
    /\ \E S \in SUBSET Agents :
           /\ agents = Frame(S, [a \in Agents |-> SELF])
           /\ draw \in [S -> DrawValues]
    /\ probabilities \in [1..Len(transition_set[SELF]) -> ProbabilityFuncs]
    /\ get_draw_calls = <<>>
    /\ groups = <<>>
    /\ output_indexes = <<>>
    /\ outcome = NoCall
    /\ repeated = NoCall
    /\ NoComponents

\* self.next_state(agents, state_column) on the State SELF.
NextStateCall ==
    /\ outcome.status = "none"
    /\ LET ts == transition_set[SELF]
           allow == allow_null_transition[SELF]
           g == GroupByNewState(ts, allow, agents, probabilities, draw)
       IN  /\ outcome' = NextState(ts, allow, agents, probabilities, draw)
           /\ get_draw_calls' = GetDrawCalls(ts, allow, agents, probabilities)
           /\ groups' = IF Len(ts) = 0 THEN groups ELSE g.groups
           /\ output_indexes' = IF Len(ts) = 0 THEN output_indexes ELSE g.output_indexes
    /\ UNCHANGED <<states, transition_set, allow_null_transition, agents,
                   probabilities, draw, repeated>>
    /\ UNCHANGED compVars
    /\ UNCHANGED scrVars

SpecNextState == InitNextState /\ [][NextStateCall]_vars

\* Arrays a probability function may return when nothing constrains its
\* values: below 0 and above 1 as well.
AnyValueFuncs ==
    { [a \in Agents |-> 0 - Part],
      [a \in Agents |-> IF a % 2 = 1 THEN 0 - Part ELSE Part],
      [a \in Agents |-> Part],
      [a \in Agents |-> One],
      [a \in Agents |-> One + Part] }

\* next_state on a State that allows the null transition, with probability
\* functions of any values.
InitAnyValues ==
    /\ simulation = NoSimulation
    /\ states = <<SELF>>
    /\ \E ts \in TransitionSets :
           transition_set = [s \in StateIds |-> IF s = SELF THEN ts ELSE <<>>]
    /\ allow_null_transition = [s \in StateIds |-> TRUE]
    /\ \E S \in SUBSET Agents :
           /\ agents = Frame(S, [a \in Agents |-> SELF])
           /\ draw \in [S -> DrawValues]
    /\ probabilities \in [1..Len(transition_set[SELF]) -> AnyValueFuncs]
    /\ get_draw_calls = <<>>
    /\ groups = <<>>
    /\ output_indexes = <<>>
    /\ outcome = NoCall
    /\ repeated = NoCall
    /\ NoComponents

SpecAnyValues == InitAnyValues /\ [][NextStateCall]_vars

----------------------------------------------------------------------------
(* Machine.transition over a population, pass after pass.                  *)

TransitionCount(tsOf) == SeqSum([i \in DOMAIN StateOrder |-> Len(tsOf[StateOrder[i]])])

\* The machines built from at most MaxTransitions Transition objects: the
\* declared States are a proper prefix of StateOrder; a Transition may
\* target any State object, declared in the Machine or not.
Init ==
    /\ simulation = NoSimulation
    /\ \E n \in 1..(Len(StateOrder) - 1) : states = SubSeq(StateOrder, 1, n)
    /\ transition_set \in [StateIds -> TransitionSets]
    /\ TransitionCount(transition_set) <= MaxTransitions
    /\ \A s \in StateIds :
           (\A i \in DOMAIN states : states[i] # s) => transition_set[s] = <<>>
    /\ allow_null_transition \in [StateIds -> BOOLEAN]
    /\ \A s \in StateIds : transition_set[s] = <<>> => allow_null_transition[s]
    /\ \E st \in [Agents -> StateIds] : agents = Frame(Agents, st)
    /\ probabilities = <<>>
    /\ draw = <<>>
    /\ get_draw_calls = <<>>
    /\ groups = <<>>
    /\ output_indexes = <<>>
    /\ outcome = NoCall
    /\ repeated = NoCall
    /\ NoComponents

\* The agents some declared State with transitions selects: the ones
\* get_draw is called for.
Sampled(population) ==
    {population[i].id : i \in {j \in DOMAIN population :
        \E k \in DOMAIN states :
            /\ states[k] = population[j].state
            /\ transition_set[states[k]] # <<>>}}

\* Where the probabilities of State s start in a flat list of the machine's
\* transitions.
Offset(s) ==
    SeqSum([i \in DOMAIN StateOrder |->
        IF \E j \in DOMAIN StateOrder : StateOrder[j] = s /\ i < j
        THEN Len(transition_set[StateOrder[i]]) ELSE 0])

\* result = machine.transition(agents)
MachineTransitionCall ==
    /\ outcome.status = "none"
    /\ \E flat \in [1..TransitionCount(transition_set) -> PassProbabilityFuncs],
          d \in [Agents -> DrawValues] :
           LET probsOf == [s \in StateIds |->
                              [k \in 1..Len(transition_set[s]) |-> flat[Offset(s) + k]]]
           IN  \* one representative of the inputs that are never read
               /\ \A a \in Agents \ Sampled(agents) : d[a] = 0
               /\ \A s \in StateIds : AffectedAgents(agents, s) = <<>> =>
                      \A k \in DOMAIN probsOf[s] : probsOf[s][k] = [a \in Agents |-> Part]
               /\ outcome' = MachineTransition(states, transition_set,
                                 allow_null_transition, agents, probsOf, d)
               /\ get_draw_calls' = MachineGetDrawCalls(states, transition_set,
                                        allow_null_transition, agents, probsOf, d)
    /\ UNCHANGED <<states, transition_set, allow_null_transition, agents,
                   probabilities, draw, groups, output_indexes, repeated>>
    /\ UNCHANGED compVars
    /\ UNCHANGED scrVars

\* The caller keeps the returned population for the next pass.
WriteBack ==
    /\ outcome.status = "ok"
    /\ agents' = outcome.value
    /\ outcome' = NoCall
    /\ UNCHANGED <<states, transition_set, allow_null_transition,
                   probabilities, draw, get_draw_calls, groups, output_indexes, repeated>>
    /\ UNCHANGED compVars
    /\ UNCHANGED scrVars

Next == MachineTransitionCall \/ WriteBack

Spec == Init /\ [][Next]_vars

----------------------------------------------------------------------------
(* Machine.transition called twice on the same population, with the same   *)
(* configuration and the same draws.                                       *)

\* A Machine of every State; SELF has the transitions, to the other States.
InitRepeat ==
    /\ simulation = NoSimulation
    /\ states = StateOrder
    /\ \E ts \in UNION { [1..n -> {Transition(s) : s \in StateIds \ {SELF}}] :
                           n \in 0..MaxTransitions } :
           transition_set = [s \in StateIds |-> IF s = SELF THEN ts ELSE <<>>]
    /\ \E allow \in BOOLEAN :
           allow_null_transition = [s \in StateIds |-> IF s = SELF THEN allow ELSE TRUE]
    /\ \E st \in [Agents -> StateIds] : agents = Frame(Agents, st)
    /\ probabilities \in [1..Len(transition_set[SELF]) -> PassProbabilityFuncs]
    /\ draw \in [Agents -> DrawValues]
    /\ \A a \in Agents \ Sampled(agents) : draw[a] = 0
    /\ get_draw_calls = <<>>
    /\ groups = <<>>
    /\ output_indexes = <<>>
    /\ outcome = NoCall
    /\ repeated = NoCall
    /\ NoComponents

\* machine.transition(agents) with the probabilities and draws of the state.
TransitionWithState ==
    MachineTransition(states, transition_set, allow_null_transition, agents,
                      [s \in StateIds |-> IF s = SELF THEN probabilities ELSE <<>>], draw)

GetDrawCallsWithState ==
    MachineGetDrawCalls(states, transition_set, allow_null_transition, agents,
                        [s \in StateIds |-> IF s = SELF THEN probabilities ELSE <<>>], draw)

FirstTransition ==
    /\ outcome.status = "none"
    /\ outcome' = TransitionWithState
    /\ get_draw_calls' = GetDrawCallsWithState
    /\ UNCHANGED <<states, transition_set, allow_null_transition, agents,
                   probabilities, draw, groups, output_indexes, repeated>>
    /\ UNCHANGED compVars
    /\ UNCHANGED scrVars

RepeatedTransition ==
    /\ outcome.status # "none"
    /\ repeated.status = "none"
    /\ repeated' = TransitionWithState
    /\ get_draw_calls' = GetDrawCallsWithState
    /\ UNCHANGED <<states, transition_set, allow_null_transition, agents,
                   probabilities, draw, groups, output_indexes, outcome>>
    /\ UNCHANGED compVars
    /\ UNCHANGED scrVars

NextRepeat == FirstTransition \/ RepeatedTransition

SpecRepeat == InitRepeat /\ [][NextRepeat]_vars

----------------------------------------------------------------------------
(* Properties of the transition engine                                     *)

Declared(s) == \E i \in DOMAIN states : states[i] = s

EveryAgentDeclared(df) == \A i \in DOMAIN df : Declared(df[i].state)

\* Each agent id of df appears in exactly one row of out.
SameAgentsOnce(df, out) == IdsOf(out) = IdsOf(df) /\ Len(out) = Cardinality(IdsOf(df))

\* C1: when every agent is in a declared State, Machine.transition returns
\* every agent of its input exactly once: none is missing, none is doubled.
C1_TransitionKeepsEveryAgent ==
    (outcome.status = "ok" /\ EveryAgentDeclared(agents))
        => SameAgentsOnce(agents, outcome.value)

\* C4: Machine.transition on a population with an agent whose state column
\* names no declared State fails; the agent is not dropped silently.
C4_UndeclaredStateFails ==
    (outcome.status # "none" /\ ~EveryAgentDeclared(agents))
        => outcome.status = "raised"

\* C6: once every agent's state column names a declared State, it does so
\* after every later pass.
C6_StateColumnStaysDeclared ==
    [][EveryAgentDeclared(agents) => EveryAgentDeclared(agents')]_vars

\* The cohort of the call and the transition set it is sampled with.
Cohort == IdsOf(agents)
SelfTransitions == transition_set[SELF]
SelfAllowsNull == allow_null_transition[SELF]
Sampling == outcome.status # "none" /\ SelfTransitions # <<>>

\* The probability agent a has for the first k transitions together, on
\* the grid.
Cumulative(k, a) == SeqSum([j \in 1..k |-> probabilities[j][a]])

\* C2: with null transitions allowed, one agent whose probabilities sum to
\* more than 1 makes the call fail with the error of groupby_new_state, and
\* no agent of the cohort has been given an outcome or a new state.
C2_OverflowFailsBeforeAnyOutcome ==
    (Sampling /\ SelfAllowsNull
        /\ \E a \in Cohort : Cumulative(Len(SelfTransitions), a) > One)
        => /\ outcome = Raised("ValueError")
           /\ output_indexes = <<>>
           /\ groups = <<>>

\* C2's case: the call failed on a cohort in which one agent's sum exceeds
\* 1 and another agent's does not.
C2_Witness ==
    /\ outcome.status = "raised"
    /\ \E a, b \in Cohort :
           /\ Cumulative(Len(SelfTransitions), a) > One
           /\ Cumulative(Len(SelfTransitions), b) <= One

\* C5: the groups of a successful sampling partition the cohort, each agent
\* under the outcome its draw selected, and next_state returns exactly the
\* cohort's agents.
C5_GroupsPartitionCohort ==
    (Sampling /\ outcome.status = "ok" /\ agents # <<>>)
        => /\ \A a \in Cohort :
                /\ Cardinality({k \in DOMAIN groups : a \in IdsOf(groups[k])}) = 1
                /\ LET key == Outputs(SelfTransitions, SelfAllowsNull)[output_indexes[a] + 1]
                   IN  key \in DOMAIN groups /\ a \in IdsOf(groups[key])
           /\ SameAgentsOnce(agents, outcome.value)

\* The outcomes of the call, in order: the transitions, then the null
\* transition when it is allowed.  The cumulative threshold of outcome k
\* for agent a is ThresholdNum(k, a) / ThresholdDen(a); without null
\* transitions it is the normalised one, and a total of 0 makes it NaN.
Outcomes == 1..(Len(SelfTransitions) + (IF SelfAllowsNull THEN 1 ELSE 0))
ThresholdNum(k, a) ==
    IF k <= Len(SelfTransitions) THEN Cumulative(k, a) ELSE One
ThresholdDen(a) ==
    IF SelfAllowsNull THEN One ELSE Cumulative(Len(SelfTransitions), a)
IsNumber(a) == ThresholdDen(a) > 0
ThresholdBelowDraw(k, a) ==
    IsNumber(a) /\ ThresholdNum(k, a) * One < draw[a] * ThresholdDen(a)
ThresholdEqualsDraw(k, a) ==
    IsNumber(a) /\ ThresholdNum(k, a) * One = draw[a] * ThresholdDen(a)
ThresholdAboveDraw(k, a) ==
    IsNumber(a) /\ ThresholdNum(k, a) * One > draw[a] * ThresholdDen(a)

Sampled_ok == Sampling /\ outcome.status = "ok"

\* C3 as stated: the outcome index of an agent is the number of cumulative
\* thresholds strictly less than its draw, so the agent gets the first
\* outcome whose threshold is >= the draw.
C3_IndexCountsThresholdsBelowDraw ==
    Sampled_ok =>
        \A a \in Cohort :
            output_indexes[a] = Cardinality({k \in Outcomes : ThresholdBelowDraw(k, a)})

\* C3 amended: the outcome index of an agent is the number of cumulative
\* thresholds less than or equal to its draw; when the thresholds are
\* numbers the agent gets the first outcome whose threshold is strictly
\* greater than the draw, so a draw equal to a threshold selects a later
\* outcome.
C3_IndexCountsThresholdsUpToDraw ==
    Sampled_ok =>
        \A a \in Cohort :
            /\ output_indexes[a] =
                   Cardinality({k \in Outcomes : ~ThresholdAboveDraw(k, a) /\ IsNumber(a)})
            /\ IsNumber(a) =>
                   /\ output_indexes[a] + 1 \in Outcomes
                   /\ ThresholdAboveDraw(output_indexes[a] + 1, a)
                   /\ \A k \in 1..output_indexes[a] : ~ThresholdAboveDraw(k, a)

\* C3's case: an agent's draw is exactly one of its thresholds.
C3_Witness ==
    /\ Sampled_ok
    /\ \E a \in Cohort : \E k \in Outcomes :
           /\ ThresholdEqualsDraw(k, a)
           /\ draw[a] > 0
           /\ output_indexes[a] >= k

----------------------------------------------------------------------------
(* Properties of Component.setup_component and of the dispatch             *)

SetUp == {c \in DOMAIN components : components[c].is_setup}

\* The priority a component declares for an event.
DeclaredPriority(self, event) ==
    CASE event = "post_setup" -> self.post_setup_priority
      [] event = "time_step__prepare" -> self.time_step_prepare_priority
      [] event = "time_step" -> self.time_step_priority
      [] event = "time_step__cleanup" -> self.time_step_cleanup_priority
      [] event = "collect_metrics" -> self.collect_metrics_priority
      [] event = "simulation_end" -> self.simulation_end_priority

\* The listeners of component c among the listeners of an event.
ListenersOf(c, event) ==
    SelectSeq(listeners[event], LAMBDA l : l.component = c)

\* C7: a component that has been set up has, for each of the six events,
\* exactly one listener, bound to its hook at its declared priority for
\* that event, if its class overrides the hook, and no listener otherwise.
C7_ListenerIffHookOverridden ==
    \A c \in SetUp : \A i \in DOMAIN EventNames :
        IF Overrides(components[c], HookNames[i])
        THEN ListenersOf(c, EventNames[i]) =
                 << [component |-> c, hook |-> HookNames[i],
                     priority |-> DeclaredPriority(components[c], EventNames[i])] >>
        ELSE ListenersOf(c, EventNames[i]) = <<>>

\* C7's case: a component overriding only on_time_step, with a priority
\* of its own, has been set up and listens to time_step alone.
C7_Witness ==
    \E c \in SetUp :
        /\ components[c].overrides = {"on_time_step"}
        /\ components[c].time_step_priority # DEFAULT_EVENT_PRIORITY
        /\ Len(listeners["time_step"]) = 1
        /\ \A e \in Events \ {"time_step"} : listeners[e] = <<>>

\* The get_view calls the component made.
GetViewCalls(self) == SelectSeq(self.calls, LAMBDA call : call.call = "get_view")

\* C8: a component that has been set up asked for a view once, over
\* columns_created followed by columns_required when columns_required is a
\* non-empty list, over all columns (the empty list) when columns_required
\* is the empty list, over columns_created when columns_required is None
\* and columns_created is not empty, each time with population_view_query;
\* and asked for no view when columns_required is None and columns_created
\* is empty.
C8_PopulationViewPrecedence ==
    \A c \in SetUp :
        LET self == components[c]
            required == self.columns_required
            created == self.columns_created
            View(columns) ==
                /\ GetViewCalls(self) =
                       << [call |-> "get_view", columns |-> columns,
                           query |-> self.population_view_query] >>
                /\ self.population_view = Some(GetView(columns, self.population_view_query))
        IN  /\ (~required.is_none /\ required.value # <<>>)
                   => View(created \o required.value)
            /\ (~required.is_none /\ required.value = <<>>) => View(<<>>)
            /\ (required.is_none /\ created # <<>>) => View(created)
            /\ (required.is_none /\ created = <<>>)
                   => GetViewCalls(self) = <<>> /\ self.population_view = None

\* C8's case: columns_required is the empty list while columns_created is
\* not, and the view is over all columns.
C8_Witness ==
    \E c \in SetUp :
        /\ components[c].columns_required = Some(<<>>)
        /\ components[c].columns_created # <<>>
        /\ ~components[c].population_view.is_none
        /\ components[c].population_view.value.columns = <<>>

\* The positions of the calls of given kinds in the component's calls.
CallsAt(self, kinds) == {i \in DOMAIN self.calls : self.calls[i].call \in kinds}

\* C9: in the calls of a component that has been set up, get_logger for
\* the component's name comes first, then the loads and build_tables of
\* every declared lookup table, then the one call of the setup hook, then
\* get_view, then the registrations; the setup hook sees the logger and
\* every declared lookup table, no population view and no listener of the
\* component, and every registration comes after the view was decided.
C9_SetupComponentOrder ==
    \A c \in SetUp :
        LET self == components[c]
            logger == CallsAt(self, {"get_logger"})
            tables == CallsAt(self, {"load", "build_table"})
            hook == CallsAt(self, {"setup"})
            view == CallsAt(self, {"get_view"})
            registrations == CallsAt(self, {"register_listener", "initializes_simulants"})
            Before(I, J) == \A i \in I, j \in J : i < j
        IN  /\ logger = {1}
            /\ self.calls[1].name = Name(c)
            /\ Cardinality(hook) = 1
            /\ Before(logger, tables) /\ Before(tables, hook)
            /\ Before(hook, view) /\ Before(view, registrations)
            /\ Before(hook, registrations)
            /\ {self.calls[i].key : i \in CallsAt(self, {"build_table"})}
                   = {self.standard_lookup_tables[k] : k \in DOMAIN self.standard_lookup_tables}
            /\ \A i \in hook :
                   /\ self.calls[i].logger = Some(Name(c))
                   /\ self.calls[i].lookup_tables
                          = {self.standard_lookup_tables[k] : k \in DOMAIN self.standard_lookup_tables}
                   /\ self.calls[i].population_view = None
                   /\ ~self.calls[i].view_decided
                   /\ self.calls[i].listeners = {}
            /\ \A i \in registrations : self.calls[i].view_decided

\* C9's case: a component with lookup tables, a population view and a
\* listener has been set up.
C9_Witness ==
    \E c \in SetUp :
        /\ Len(components[c].standard_lookup_tables) = Len(LookupKeys)
        /\ CallsAt(components[c], {"load"}) # {}
        /\ CallsAt(components[c], {"get_view"}) # {}
        /\ CallsAt(components[c], {"register_listener"}) # {}
        /\ CallsAt(components[c], {"initializes_simulants"}) # {}

\* The position of component c in the order the components were set up.
SetupPosition(c) ==
    CHOOSE i \in DOMAIN lifecycle.setup_order : lifecycle.setup_order[i] = c

StepEvents == <<"time_step__prepare", "time_step", "time_step__cleanup", "collect_metrics">>
RECURSIVE RunEvents(_)
RunEvents(n) ==
    IF n = 0 THEN <<"post_setup">>
    ELSE RunEvents(n - 1) \o StepEvents
IsPrefix(s, t) == Len(s) <= Len(t) /\ s = SubSeq(t, 1, Len(s))

\* The hook a dispatch of an event runs.
HookOf(event) == HookNames[CHOOSE i \in DOMAIN EventNames : EventNames[i] = event]

C12_EmptyTransitionSetReturnsCohort ==
    (outcome.status # "none" /\ SelfTransitions = <<>>)
        => /\ outcome = Returned(agents)
           /\ get_draw_calls = <<>>

\* C12's case: a State without transitions has returned a cohort of every
\* agent.
C12_Witness ==
    /\ outcome.status = "ok"
    /\ SelfTransitions = <<>>
    /\ Cohort = Agents
    /\ outcome.value = agents

\* A Machine of two States: B, which has the transition set of SELF and
\* holds no agent, then SELF with the cohort.
WithEmptyState ==
    MachineTransition(<<"B", SELF>>,
                      [transition_set EXCEPT !["B"] = SelfTransitions],
                      [allow_null_transition EXCEPT !["B"] = SelfAllowsNull],
                      agents, [s \in StateIds |-> probabilities], draw)

\* C13: next_state on an empty cohort with a non-empty TransitionSet,
\* null transitions allowed or not, raises nothing and returns an empty
\* frame; and Machine.transition with a declared State that holds no agent
\* ends as the call on the other State's cohort ends.
C13_EmptyCohortReturnsEmpty ==
    Sampling =>
        /\ agents = <<>> => outcome = Returned(<<>>)
        /\ WithEmptyState = outcome

\* C13's case: an empty cohort went through two transitions without null
\* transition.
C13_Witness ==
    /\ Sampling
    /\ agents = <<>>
    /\ Len(SelfTransitions) = MaxTransitions
    /\ ~SelfAllowsNull
    /\ outcome.status = "ok"

\* The probability of the appended null outcome for agent a, on the grid.
NullProbability(a) ==
    LET p == Probabilities(probabilities, TRUE, a) IN p[Len(p)].num

\* C14: when sampling with the null transition allowed proceeds, every
\* agent's transition probabilities sum to at most 1 and the probability of
\* the null outcome, 1 - sum, is between 0 and 1, whatever the probability
\* functions returned.
C14_NullProbabilityInUnitInterval ==
    (Sampling /\ SelfAllowsNull /\ outcome.status = "ok") =>
        \A a \in Cohort :
            /\ Total(probabilities, a) <= One
            /\ NullProbability(a) >= 0
            /\ NullProbability(a) <= One

\* C15: with the null transition disallowed, after the normalisation every
\* agent's probabilities sum to 1 and its last cumulative threshold is 1,
\* also for an agent whose transitions all have probability 0.
C15_NormalisedSumIsOne ==
    (Sampling /\ ~SelfAllowsNull /\ outcome.status = "ok") =>
        \A a \in Cohort :
            LET p == Probabilities(probabilities, FALSE, a)
                sums == Sums(probabilities, FALSE, a)
            IN  /\ \A k \in DOMAIN p : p[k].den > 0
                /\ SeqSum([k \in DOMAIN p |-> p[k].num]) = p[1].den
                /\ sums[Len(sums)].num = sums[Len(sums)].den
                /\ output_indexes[a] + 1 \in DOMAIN SelfTransitions

\* The number of agents a returned population has in State s.
CountIn(df, s) == Cardinality({i \in DOMAIN df : df[i].state = s})

RowOf(df, a) == df[CHOOSE i \in DOMAIN df : df[i].id = a]

\* The agents whose outcome index is that of a transition, and those whose
\* outcome index is that of the null transition.
AssignedTransition == {a \in Cohort : output_indexes[a] + 1 <= Len(SelfTransitions)}
AssignedNull == {a \in Cohort : output_indexes[a] + 1 = Len(SelfTransitions) + 1}

\* C17: every agent of the result of next_state whose outcome is a
\* transition has, as state column value, the id of the target of the
\* transition at its outcome index.
C17_TargetStateWritten ==
    Sampled_ok =>
        \A a \in AssignedTransition \cap IdsOf(outcome.value) :
            RowOf(outcome.value, a).state = SelfTransitions[output_indexes[a] + 1].output

\* C17's case: two agents of the result were assigned different
\* transitions, to different States, one of them not SELF.
C17_Witness ==
    /\ Sampled_ok
    /\ \E a, b \in AssignedTransition \cap IdsOf(outcome.value) :
           /\ output_indexes[a] # output_indexes[b]
           /\ RowOf(outcome.value, a).state # RowOf(outcome.value, b).state
           /\ RowOf(outcome.value, a).state # SELF

\* C18: every agent assigned the null transition is in the result of
\* next_state once, with the row it had: its state column still holds the
\* source State's id.
C18_NullTransitionLeavesAgent ==
    Sampled_ok =>
        \A a \in AssignedNull :
            /\ Cardinality({i \in DOMAIN outcome.value : outcome.value[i].id = a}) = 1
            /\ RowOf(outcome.value, a) = RowOf(agents, a)
            /\ RowOf(outcome.value, a).state = SELF

\* C18's case: one agent was assigned the null transition while another
\* moved to another State.
C18_Witness ==
    /\ Sampled_ok
    /\ \E a \in AssignedNull : \E b \in AssignedTransition \cap IdsOf(outcome.value) :
           RowOf(outcome.value, b).state # SELF

\* C19: every read of name returns what the first read returned, and every
\* call of __repr__ what the first call returned, whatever was assigned to
\* the attributes in between.
C19_NameAndReprStay ==
    /\ \A i \in DOMAIN instance.names : instance.names[i] = instance.names[1]
    /\ \A i \in DOMAIN instance.reprs : instance.reprs[i] = instance.reprs[1]

\* C19's case: name and __repr__ were each read, an attribute that enters
\* them was then given another value, and they were read again.
C19_Witness ==
    /\ Len(instance.names) = MaxReads
    /\ Len(instance.reprs) = MaxReads
    /\ instance.writes > 0
    /\ ComputedName(instance) # instance.names[1]
    /\ ComputedRepr(instance) # instance.reprs[1]

\* The name derived from the class and the arguments the constructor was
\* called with; an argument the constructor kept in no attribute of the
\* same name has no part in it.
NameFromArguments(self) ==
    ComputedName([self EXCEPT !.attributes = [q \in self.stored |-> self.arguments[q]]])

\* C20: the name a component returns is the one derived from its class
\* name and the arguments passed to its constructor, whenever it is first
\* read and whatever was assigned to its attributes before.
C20_NameFromConstructorArguments ==
    \A i \in DOMAIN instance.names :
        instance.names[i] = NameFromArguments(instance)

----------------------------------------------------------------------------
(* Setup once, and the listeners it leaves                                 *)

\* How many of the listeners an emit ran are hook `hook` of component c.
TimesRun(c, hook) ==
    Cardinality({i \in DOMAIN lifecycle.ran :
                    /\ lifecycle.ran[i].component = c
                    /\ lifecycle.ran[i].hook = hook})

\* Every component is set up at most once, has one listener per event whose
\* hook it overrides, and the last emit ran that hook once.
ListenersOncePerHook ==
    /\ \A i, j \in DOMAIN lifecycle.setup_order :
           lifecycle.setup_order[i] = lifecycle.setup_order[j] => i = j
    /\ \A c \in SetUp : \A e \in Events :
           Overrides(components[c], HookOf(e)) => Len(ListenersOf(c, e)) = 1
    /\ lifecycle.event # "" =>
           \A c \in DOMAIN components :
               TimesRun(c, HookOf(lifecycle.event)) =
                   IF Overrides(components[c], HookOf(lifecycle.event)) THEN 1 ELSE 0

----------------------------------------------------------------------------
(* setup_component on a subclass whose priority properties return any int  *)

\* Subclasses overriding every *_priority property to return one value;
\* nothing in Component checks what the property returns.
AnyPriorityClasses ==
    { WithPriorities([BaseComponent EXCEPT !.overrides = o],
                     [post_setup |-> v, time_step_prepare |-> v, time_step |-> v,
                      time_step_cleanup |-> v, collect_metrics |-> v,
                      simulation_end |-> v]) :
        o \in SUBSET Hooks,
        v \in {0 - 1, 0, DEFAULT_EVENT_PRIORITY, 9, 10} }

InitAnyPriority ==
    /\ simulation = NoSimulation
    /\ NoMachine
    /\ components \in [{1} -> AnyPriorityClasses]
    /\ listeners = [e \in Events |-> <<>>]
    /\ initializers = <<>>
    /\ lifecycle = IdleLifecycle
    /\ instance = NoInstance

SpecAnyPriority == InitAnyPriority /\ [][SetupStep]_vars

\* C22: every listener registered by setup_component, whatever the
\* subclass and the event, has an integer priority from 0 to 9.
C22_ListenerPriorityInRange ==
    \A e \in Events : \A i \in DOMAIN listeners[e] :
        listeners[e][i].priority \in 0..9

----------------------------------------------------------------------------
(* One pass of Machine.transition over two States that both sample         *)

PassStates == {"A", "B"}

\* What the probability function of a Transition returns in the pass: a
\* constant, which may exceed 1.
PassValues == {Part, One, One + Part}

\* A Machine of the States A and B, declared in either order; A has a
\* Transition to B, B has one to A or to C.
InitPass ==
    /\ simulation = NoSimulation
    /\ states \in {<<"A", "B">>, <<"B", "A">>}
    /\ \E t \in {"A", "C"} :
           transition_set = [s \in StateIds |->
               CASE s = "A" -> <<Transition("B")>>
                 [] s = "B" -> <<Transition(t)>>
                 [] OTHER -> <<>>]
    /\ allow_null_transition \in [StateIds -> BOOLEAN]
    /\ allow_null_transition["C"]
    /\ \E st \in [Agents -> PassStates] : agents = Frame(Agents, st)
    /\ \E v \in [PassStates -> PassValues] :
           probabilities = [s \in StateIds |->
               IF s \in PassStates THEN << [a \in Agents |-> v[s]] >> ELSE <<>>]
    /\ draw \in [Agents -> DrawValues]
    /\ get_draw_calls = <<>>
    /\ groups = <<>>
    /\ output_indexes = <<>>
    /\ outcome = NoCall
    /\ repeated = NoCall
    /\ NoComponents

\* result = machine.transition(agents)
PassCall ==
    /\ outcome.status = "none"
    /\ outcome' = MachineTransition(states, transition_set, allow_null_transition,
                                    agents, probabilities, draw)
    /\ get_draw_calls' = MachineGetDrawCalls(states, transition_set,
                             allow_null_transition, agents, probabilities, draw)
    /\ UNCHANGED <<states, transition_set, allow_null_transition, agents,
                   probabilities, draw, groups, output_indexes, repeated>>
    /\ UNCHANGED compVars
    /\ UNCHANGED scrVars

SpecPass == InitPass /\ [][PassCall]_vars

\* The state agent a is in when the pass starts.
StateBefore(a) == RowOf(agents, a).state

\* The ids State s selects from the population the pass starts with.
StartCohort(s) == IdsOf(AffectedAgents(agents, s))

\* C23: in a pass that returns, every agent is in one row of the result
\* and in the cohort of one get_draw call; the k-th call is for the agents
\* the k-th State selects from the population the pass started with; and
\* the agent's state in the result is the state it started in or the
\* target of a Transition of that state.
C23_OneStatePerAgentPerPass ==
    outcome.status = "ok" =>
        /\ SameAgentsOnce(agents, outcome.value)
        /\ Len(get_draw_calls) = Len(states)
        /\ \A k \in DOMAIN states : get_draw_calls[k] = StartCohort(states[k])
        /\ \A a \in Agents :
               /\ Cardinality({k \in DOMAIN get_draw_calls : a \in get_draw_calls[k]}) = 1
               /\ \/ RowOf(outcome.value, a).state = StateBefore(a)
                  \/ \E k \in DOMAIN transition_set[StateBefore(a)] :
                         RowOf(outcome.value, a).state =
                             transition_set[StateBefore(a)][k].output

\* C23's case: A is declared before B, B's Transition leads to C, and an
\* agent that started in A has been moved to B while an agent that started
\* in B has been moved to C.
C23_Witness ==
    /\ outcome.status = "ok"
    /\ states = <<"A", "B">>
    /\ transition_set["B"] = <<Transition("C")>>
    /\ \E a, b \in Agents :
           /\ StateBefore(a) = "A" /\ RowOf(outcome.value, a).state = "B"
           /\ StateBefore(b) = "B" /\ RowOf(outcome.value, b).state = "C"

\* The sampling of State s fails: it allows the null transition and the
\* probabilities of one agent of its cohort sum to more than 1.
SamplingFails(s) ==
    /\ allow_null_transition[s]
    /\ \E a \in StartCohort(s) : Total(probabilities[s], a) > One

\* C24: when the sampling of a State fails, the pass ends with the error of
\* groupby_new_state and without a value, get_draw has been called for the
\* States declared before the first failing one and for no other; when no
\* sampling fails the pass returns.
C24_FailureAbortsPass ==
    outcome.status # "none" =>
        IF \E k \in DOMAIN states : SamplingFails(states[k])
        THEN LET first == CHOOSE k \in DOMAIN states :
                              /\ SamplingFails(states[k])
                              /\ \A j \in 1..(k - 1) : ~SamplingFails(states[j])
             IN  /\ outcome = Raised("ValueError")
                 /\ outcome.value = <<>>
                 /\ get_draw_calls = [j \in 1..(first - 1) |-> StartCohort(states[j])]
        ELSE outcome.status = "ok"

\* C24's case: the first State's sampling failed, the second State has
\* agents that would have been moved, and the pass raised with no draw made.
C24_Witness ==
    /\ outcome = Raised("ValueError")
    /\ SamplingFails(states[1])
    /\ ~SamplingFails(states[2])
    /\ StartCohort(states[2]) # {}
    /\ get_draw_calls = <<>>

----------------------------------------------------------------------------
(* Outcomes of probability zero                                            *)

\* The probability outcome k has for agent a when the null transition is
\* allowed: that of the k-th Transition, or what the Transitions leave.
OutcomeProbability(k, a) ==
    IF k <= Len(SelfTransitions) THEN probabilities[k][a]
    ELSE One - Total(probabilities, a)

\* C25: with the null transition allowed, draws in [0, 1) and per-agent
\* probabilities in [0, 1] summing to at most 1, the outcome index of every
\* agent is an index of the outcome list, and the outcome it selects has a
\* probability above 0 for that agent: neither a Transition of probability
\* 0 nor the null transition of an agent whose sum is 1 is ever assigned.
C25_ZeroProbabilityNeverAssigned ==
    (Sampled_ok /\ SelfAllowsNull) =>
        \A a \in Cohort :
            /\ output_indexes[a] + 1 \in Outcomes
            /\ OutcomeProbability(output_indexes[a] + 1, a) > 0

\* C25's case: one agent's first Transition has probability 0 and its draw
\* is 0, and it was assigned a later outcome; another agent's probabilities
\* sum to 1 and it was assigned a Transition.
C25_Witness ==
    /\ Sampled_ok
    /\ SelfAllowsNull
    /\ \E a \in Cohort :
           /\ probabilities[1][a] = 0
           /\ draw[a] = 0
           /\ output_indexes[a] >= 1
    /\ \E b \in Cohort :
           /\ Total(probabilities, b) = One
           /\ draw[b] = Resolution - 1
           /\ b \in AssignedTransition

----------------------------------------------------------------------------
(* The lookup tables build_lookup_tables leaves                            *)

\* The keys of standard_lookup_tables configured as "data", in order.
DataKeys(self) ==
    SelectSeq(self.standard_lookup_tables,
              LAMBDA k : self.configuration[k].value = "data")

\* C26: a component that has been set up holds one lookup table per key of
\* standard_lookup_tables and no other; the table of a key configured as
\* "data" is built from the data loaded by the key's key_name, with the
\* categorical columns as key columns and the continuous columns as
\* parameter columns, the table of any other key from the configured
\* value; data was loaded once per "data" key and for nothing else; and
\* the custom setup hook ran with all the tables in place.
C26_LookupTablesBuilt ==
    \A c \in SetUp :
        LET self == components[c]
            keys == {self.standard_lookup_tables[k] : k \in DOMAIN self.standard_lookup_tables}
            loads == SelectSeq(self.calls, LAMBDA call : call.call = "load")
        IN  /\ DOMAIN self.lookup_tables = keys
            /\ \A k \in keys :
                   LET config == self.configuration[k]
                   IN  IF config.value = "data"
                       THEN self.lookup_tables[k] =
                                [data |-> [loaded |-> config.key_name],
                                 key_columns |-> config.categorical_columns,
                                 parameter_columns |-> config.continuous_columns]
                       ELSE self.lookup_tables[k] =
                                [data |-> config.value, key_columns |-> None,
                                 parameter_columns |-> None]
            /\ Len(loads) = Len(DataKeys(self))
            /\ \A i \in DOMAIN loads :
                   loads[i].key_name = self.configuration[DataKeys(self)[i]].key_name
            /\ \A i \in CallsAt(self, {"setup"}) : self.calls[i].lookup_tables = keys

\* C26's case: a component with one key configured as "data" and one
\* configured with a literal value has been set up.
C26_Witness ==
    \E c \in SetUp :
        /\ Len(components[c].standard_lookup_tables) = Len(LookupKeys)
        /\ Len(DataKeys(components[c])) = 1
        /\ Cardinality(DOMAIN components[c].lookup_tables) = Len(LookupKeys)

----------------------------------------------------------------------------
(* A component without columns                                             *)

WithoutColumns ==
    {c \in DOMAIN components :
        components[c].columns_required.is_none /\ components[c].columns_created = <<>>}

\* C27: a component with columns_required None and no columns_created has,
\* before its setup, after it and through every event of the run, made no
\* get_view call, its population_view is None, and a population access of
\* one of its hooks through that view raises.
C27_NoViewWithoutColumns ==
    \A c \in WithoutColumns :
        /\ GetViewCalls(components[c]) = <<>>
        /\ components[c].population_view = None
        /\ PopulationAccess(components[c]).status = "raised"

\* C27's case: the run has ended; a component without columns that
\* overrides every hook was set up and its hooks ran in each time step.
C27_Witness ==
    /\ lifecycle.event = "simulation_end"
    /\ lifecycle.step = MaxSteps
    /\ \E c \in WithoutColumns \cap SetUp :
           /\ components[c].overrides = Hooks
           /\ TimesRun(c, "on_simulation_end") = 1
           /\ PopulationAccess(components[c]).error = "AttributeError"

----------------------------------------------------------------------------
(* The opportunistic screening module: blood pressure categories and the   *)
(* follow-up test.  A boolean Series is a function from the simulants to    *)
(* BOOLEAN; times are counted in half days, so that timedelta(days=30.5*n)  *)
(* is the integer 61 * n.                                                   *)

NumSimulants == 1

Simulants == 1..NumSimulants

\* timedelta(days=30.5 * n)
Months(n) == 61 * n

\* The ages and systolic blood pressures on both sides of every threshold
\* of _hypertensive_categories.
Ages == {59, 60}
SystolicBloodPressures == {139, 140, 149, 150, 179, 180}

\* _hypertensive_categories with a hypertensive range that includes 180.
HypertensiveCategoriesThrough180(mask, population) ==
    LET under_60 == [s \in Simulants |-> mask[s] /\ population[s].age < 60]
        over_60 == [s \in Simulants |-> mask[s] /\ population[s].age >= 60]
    IN  [ normotensive |-> [s \in Simulants |->
              \/ under_60[s] /\ population[s].systolic_blood_pressure < 140
              \/ over_60[s] /\ population[s].systolic_blood_pressure < 150],
          hypertensive |-> [s \in Simulants |->
              \/ /\ under_60[s]
                 /\ population[s].systolic_blood_pressure >= 140
                 /\ population[s].systolic_blood_pressure <= 180
              \/ /\ over_60[s]
                 /\ population[s].systolic_blood_pressure >= 150
                 /\ population[s].systolic_blood_pressure <= 180],
          severe_hypertension |-> [s \in Simulants |->
              mask[s] /\ population[s].systolic_blood_pressure >= 180] ]

\* _hypertensive_categories(mask, population)
HypertensiveCategories(mask, population) ==
    LET under_60 == [s \in Simulants |-> mask[s] /\ population[s].age < 60]
        over_60 == [s \in Simulants |-> mask[s] /\ population[s].age >= 60]
    IN  [ normotensive |-> [s \in Simulants |->
              \/ under_60[s] /\ population[s].systolic_blood_pressure < 140
              \/ over_60[s] /\ population[s].systolic_blood_pressure < 150],
          hypertensive |-> [s \in Simulants |->
              \/ /\ under_60[s]
                 /\ population[s].systolic_blood_pressure >= 140
                 /\ population[s].systolic_blood_pressure < 180
              \/ /\ over_60[s]
                 /\ population[s].systolic_blood_pressure >= 150
                 /\ population[s].systolic_blood_pressure < 180],
          severe_hypertension |-> [s \in Simulants |->
              mask[s] /\ population[s].systolic_blood_pressure >= 180] ]

\* population.loc[rows, 'healthcare_followup_date'] = date
LocFollowup(population, rows, date) ==
    [s \in Simulants |->
        IF rows[s] THEN [population[s] EXCEPT !.healthcare_followup_date = Some(date)]
        ELSE population[s]]

\* population.loc[rows, 'taking_blood_pressure_medication_a'] = value
LocMedicationA(population, rows, value) ==
    [s \in Simulants |->
        IF rows[s] THEN [population[s] EXCEPT !.taking_blood_pressure_medication_a = value]
        ELSE population[s]]

\* population.loc[rows, 'taking_blood_pressure_medication_b'] = value
LocMedicationB(population, rows, value) ==
    [s \in Simulants |->
        IF rows[s] THEN [population[s] EXCEPT !.taking_blood_pressure_medication_b = value]
        ELSE population[s]]

\* A Simulation with its population before a follow-up visit: nobody has a
\* follow-up date yet, and any simulant may take the drugs.
InitScreening ==
    /\ NoMachine
    /\ NoComponents
    /\ \E population \in [Simulants ->
              [age : Ages,
               systolic_blood_pressure : SystolicBloodPressures,
               taking_blood_pressure_medication_a : BOOLEAN,
               taking_blood_pressure_medication_b : BOOLEAN,
               healthcare_followup_date : {None}]],
          mask \in [Simulants -> BOOLEAN] :
           simulation = [population |-> population,
                         mask |-> mask,
                         current_time |-> 0,
                         cost_by_year |-> 0,
                         categories |-> <<>>,
                         tested |-> FALSE]

\* followup_blood_pressure_test(label, mask, simulation), statement after
\* statement.
FollowupBloodPressureTest ==
    /\ ~simulation.tested
    /\ LET mask == simulation.mask
           population == simulation.population
           now == simulation.current_time
           categories == HypertensiveCategories(mask, population)
           normotensive == categories.normotensive
           hypertensive == categories.hypertensive
           severe_hypertension == categories.severe_hypertension
           nonmedicated_normotensive == [s \in Simulants |->
               /\ normotensive[s]
               /\ population[s].taking_blood_pressure_medication_a = FALSE
               /\ population[s].taking_blood_pressure_medication_b = FALSE]
           medicated_normotensive == [s \in Simulants |->
               /\ normotensive[s]
               /\ \/ population[s].taking_blood_pressure_medication_a = FALSE
                  \/ population[s].taking_blood_pressure_medication_b = FALSE]
           p1 == LocFollowup(population, nonmedicated_normotensive, now + Months(60))
           p2 == LocFollowup(p1, medicated_normotensive, now + Months(11))
           p3 == LocMedicationA(p2, medicated_normotensive, FALSE)
           p4 == LocMedicationB(p3, medicated_normotensive, FALSE)
           p5 == LocFollowup(p4, hypertensive, now + Months(6))
           p6 == LocMedicationA(p5, hypertensive, TRUE)
           p7 == LocFollowup(p6, severe_hypertension, now + Months(6))
           p8 == LocMedicationA(p7, severe_hypertension, TRUE)
           p9 == LocMedicationB(p8, severe_hypertension, TRUE)
       IN  simulation' = [simulation EXCEPT
               !.cost_by_year = @ + 3 * Cardinality({s \in Simulants : mask[s]}),
               !.categories = categories,
               !.population = p9,
               !.tested = TRUE]
    /\ UNCHANGED smVars
    /\ UNCHANGED compVars

SpecScreening == InitScreening /\ [][FollowupBloodPressureTest]_vars

\* How many of the three categories simulant s is in.
CategoriesOf(s) ==
    Cardinality({c \in {"normotensive", "hypertensive", "severe_hypertension"} :
                    simulation.categories[c][s]})

\* C28: in the categories computed for a test, every simulant of the mask
\* is in exactly one of normotensive, hypertensive and severe_hypertension,
\* whatever its age and systolic blood pressure, and a simulant outside
\* the mask is in none.
C28_ExactlyOneCategory ==
    simulation.tested =>
        \A s \in Simulants :
            CategoriesOf(s) = IF simulation.mask[s] THEN 1 ELSE 0

\* C28's case: a tested simulant of 60 with a systolic blood pressure of
\* 149 was found normotensive.
C28_Witness ==
    /\ simulation.tested
    /\ \E s \in Simulants :
           /\ simulation.mask[s]
           /\ simulation.population[s].age = 60
           /\ simulation.population[s].systolic_blood_pressure = 149
           /\ simulation.categories.normotensive[s]
           /\ CategoriesOf(s) = 1

\* Simulant s is tested in this step and is normotensive.
TestedNormotensive(s) ==
    /\ ~simulation.tested
    /\ simulation'.tested
    /\ simulation.mask[s]
    /\ HypertensiveCategories(simulation.mask, simulation.population).normotensive[s]

\* C29: the follow-up test gives every tested normotensive simulant taking
\* neither medication a follow-up date 60 months after the current time.
C29_UnmedicatedFollowupInSixtyMonths ==
    [][\A s \in Simulants :
          (/\ TestedNormotensive(s)
           /\ ~simulation.population[s].taking_blood_pressure_medication_a
           /\ ~simulation.population[s].taking_blood_pressure_medication_b)
              => simulation'.population[s].healthcare_followup_date
                     = Some(simulation.current_time + Months(60))]_vars

\* C30: the follow-up test leaves every tested normotensive simulant who
\* was taking medication a, medication b or both with both medication
\* flags False and a follow-up date 11 months after the current time.
C30_MedicatedDropDrugsElevenMonths ==
    [][\A s \in Simulants :
          (/\ TestedNormotensive(s)
           /\ \/ simulation.population[s].taking_blood_pressure_medication_a
              \/ simulation.population[s].taking_blood_pressure_medication_b)
              => /\ ~simulation'.population[s].taking_blood_pressure_medication_a
                 /\ ~simulation'.population[s].taking_blood_pressure_medication_b
                 /\ simulation'.population[s].healthcare_followup_date
                        = Some(simulation.current_time + Months(11))]_vars

====
